---- MODULE Spec2Model ----
(***************************************************************************)
(* A model of the csv_loader package: the CSVLoader read loop, the two     *)
(* mapping strategies and the CSVRow value normalisation.                  *)
(*                                                                         *)
(* A Python str is a sequence of one-character strings, so that str.strip  *)
(* and the int parser are computed and not assumed.  A Python value that   *)
(* may be None is a record [none, v].  A typed field value is a record     *)
(* tagged with its Python type.                                            *)
(***************************************************************************)
EXTENDS Integers, Sequences, FiniteSets, TLC

\* The longest row source the loader is run on.
MaxRows == 3

VARIABLES
    reader,            \* CSVLoader.reader: the rows the source yields
    has_header,        \* CSVLoader.has_header
    aggregate_errors,  \* CSVLoader.aggregate_errors
    strategy_arg,      \* the mapping_strategy argument of CSVLoader.__init__
    header_remap,      \* MappingStrategyByHeader.header_remap
    pc,                \* where the caller is
    mapping_strategy,  \* class of CSVLoader.mapping_strategy
    strategy_header,   \* MappingStrategyBase.header
    header_set,        \* whether set_header was ever called on the strategy
    result_rows,       \* CSVLoaderResult.rows
    result_errors,     \* CSVLoaderResult.errors
    result_header,     \* CSVLoaderResult.header
    line_number,       \* the index enumerate() gives the next row
    raised,            \* the exceptions that reached the caller
    outcomes,          \* the branch of the loop body each consumed row took
    call,              \* the last create_model_param_dict call made on a strategy alone
    norm,              \* a field value given to the validators of a CSVRow, and what they made of it
    query              \* the last query made on a CSVRows collection

vars == << reader, has_header, aggregate_errors, strategy_arg, header_remap, pc,
           mapping_strategy, strategy_header, header_set, result_rows,
           result_errors, result_header, line_number, raised, outcomes,
           call, norm, query >>

----------------------------------------------------------------------------
(* Python values *)

\* None, for a value that is None or a list.
None == [none |-> TRUE, v |-> << >>]

\* A value that is not None.
Some(x) == [none |-> FALSE, v |-> x]

\* Python's truth value of an Optional[List]: None and [] are both false.
Truthy(o) == ~o.none /\ Len(o.v) > 0

\* A field value, tagged with its Python type t: a str has its characters in
\* s, an int its number in n, a bool its truth value in b.
PyNone == [t |-> "NoneType", s |-> << >>, n |-> 0, b |-> FALSE]

PyStr(str) == [t |-> "str", s |-> str, n |-> 0, b |-> FALSE]

PyInt(int) == [t |-> "int", s |-> << >>, n |-> int, b |-> FALSE]

PyBool(bool) == [t |-> "bool", s |-> << >>, n |-> 0, b |-> bool]

\* A float written in decimal: whether it is negative, its integer part and
\* the digits of its fraction without trailing zeros; zero is not negative.
PyFloat(negative, int, fraction) ==
    [t |-> "float", s |-> fraction, n |-> int,
     b |-> negative /\ ~(int = 0 /\ fraction = << >>)]

\* The characters str.strip() removes, among those the model uses.
Whitespace == {" ", "\t", "\n"}

Min(a, b) == IF a < b THEN a ELSE b

\* str.strip(): drop the leading and the trailing whitespace.
Strip(s) ==
    LET keep == {i \in 1..Len(s) : s[i] \notin Whitespace}
    IN  IF keep = {} THEN << >>
        ELSE LET first == CHOOSE i \in keep : \A j \in keep : i <= j
                 last == CHOOSE i \in keep : \A j \in keep : j <= i
             IN  SubSeq(s, first, last)

\* dict(zip(keys, values)): pairs up to the shorter length, a later pair
\* with the same key replacing the earlier one.
DictZip(keys, values) ==
    LET n == Min(Len(keys), Len(values))
    IN  [k \in {keys[i] : i \in 1..n} |->
            values[CHOOSE i \in 1..n :
                      keys[i] = k /\ \A j \in 1..n : keys[j] = k => j <= i]]

----------------------------------------------------------------------------
(* errors.py *)

HeaderNotSetError == "HeaderNotSetError"

IndexOutOfHeaderBounds == "IndexOutOfHeaderBounds"

ValidationError == "ValidationError"

\* The mapping strategy errors: the subclasses of MappingStrategyError.
MappingStrategyError == {HeaderNotSetError, IndexOutOfHeaderBounds}

\* An exception: its class and, for pydantic's ValidationError, the fields
\* that failed.
Exception(kind, fields) == [kind |-> kind, fields |-> fields]

\* A 1-based line number instead of enumerate's 0-based index.
CSVValidationError_OneBased(ln, original_error) ==
    [kind |-> "CSVValidationError", line_number |-> ln + 1,
     original_error |-> original_error]

CSVValidationError(ln, original_error) ==
    [kind |-> "CSVValidationError", line_number |-> ln,
     original_error |-> original_error]

----------------------------------------------------------------------------
(* csv_loader.py: CSVRow and its configuration *)

\* The magic name in empty_optional_str_fields_to_none that means every field.
AllFields == << "_", "_", "a", "l", "l", "_", "_" >>

\* CSVRowDefaultConfig: strip on, every optional string field eligible,
\* booleans written "1" and "0".
CSVRowDefaultConfig ==
    [anystr_strip_whitespace |-> TRUE,
     empty_optional_str_fields_to_none |-> {AllFields},
     bool_value_pair |-> [true |-> << "1" >>, false |-> << "0" >>]]

\* The declared types a field of the model class has here; field.type_ of
\* Optional[T] is T and field.required is false.
FieldTypes == {"int", "str", "bool", "float"}

\* prepare_str_value with the boolean branch falling through to the string
\* rules when neither literal matches.
PrepareStrValue_BoolFallsThrough(value, field, cfg) ==
    IF value.t # "str" THEN value
    ELSE LET s == IF cfg.anystr_strip_whitespace THEN Strip(value.s) ELSE value.s
         IN  IF field.type = "bool" /\ s = cfg.bool_value_pair.true THEN PyBool(TRUE)
             ELSE IF field.type = "bool" /\ s = cfg.bool_value_pair.false THEN PyBool(FALSE)
             ELSE IF Len(s) > 0 THEN PyStr(s)
             ELSE IF field.type # "str" THEN PyNone
             ELSE IF /\ \/ AllFields \in cfg.empty_optional_str_fields_to_none
                        \/ field.name \in cfg.empty_optional_str_fields_to_none
                     /\ ~field.required
             THEN PyNone
             ELSE PyStr(s)

\* prepare_str_value with the test of the eligible set made for every
\* declared type, the test of field.type_ left out.
PrepareStrValue_EligibleSetForEveryType(value, field, cfg) ==
    IF value.t # "str" THEN value
    ELSE LET s == IF cfg.anystr_strip_whitespace THEN Strip(value.s) ELSE value.s
         IN  IF field.type = "bool"
             THEN IF s = cfg.bool_value_pair.true THEN PyBool(TRUE)
                  ELSE IF s = cfg.bool_value_pair.false THEN PyBool(FALSE)
                  ELSE PyNone
             ELSE IF Len(s) > 0 THEN PyStr(s)
             ELSE IF /\ \/ AllFields \in cfg.empty_optional_str_fields_to_none
                        \/ field.name \in cfg.empty_optional_str_fields_to_none
                     /\ ~field.required
             THEN PyNone
             ELSE PyStr(s)

\* prepare_str_value with the last condition parenthesised the other way:
\* "__all__" in set or (name in set and not required).
PrepareStrValue_AllTokenForRequired(value, field, cfg) ==
    IF value.t # "str" THEN value
    ELSE LET s == IF cfg.anystr_strip_whitespace THEN Strip(value.s) ELSE value.s
         IN  IF field.type = "bool"
             THEN IF s = cfg.bool_value_pair.true THEN PyBool(TRUE)
                  ELSE IF s = cfg.bool_value_pair.false THEN PyBool(FALSE)
                  ELSE PyNone
             ELSE IF Len(s) > 0 THEN PyStr(s)
             ELSE IF field.type # "str" THEN PyNone
             ELSE IF \/ AllFields \in cfg.empty_optional_str_fields_to_none
                     \/ /\ field.name \in cfg.empty_optional_str_fields_to_none
                        /\ ~field.required
             THEN PyNone
             ELSE PyStr(s)

\* prepare_str_value with a bare return for a value that is not a str.
PrepareStrValue_DropsNonStr(value, field, cfg) ==
    IF value.t # "str" THEN PyNone
    ELSE LET s == IF cfg.anystr_strip_whitespace THEN Strip(value.s) ELSE value.s
         IN  IF field.type = "bool"
             THEN IF s = cfg.bool_value_pair.true THEN PyBool(TRUE)
                  ELSE IF s = cfg.bool_value_pair.false THEN PyBool(FALSE)
                  ELSE PyNone
             ELSE IF Len(s) > 0 THEN PyStr(s)
             ELSE IF field.type # "str" THEN PyNone
             ELSE IF /\ \/ AllFields \in cfg.empty_optional_str_fields_to_none
                        \/ field.name \in cfg.empty_optional_str_fields_to_none
                     /\ ~field.required
             THEN PyNone
             ELSE PyStr(s)

\* prepare_str_value without the strip.
PrepareStrValue_NoStrip(value, field, cfg) ==
    IF value.t # "str" THEN value
    ELSE LET s == value.s
         IN  IF field.type = "bool"
             THEN IF s = cfg.bool_value_pair.true THEN PyBool(TRUE)
                  ELSE IF s = cfg.bool_value_pair.false THEN PyBool(FALSE)
                  ELSE PyNone
             ELSE IF Len(s) > 0 THEN PyStr(s)
             ELSE IF field.type # "str" THEN PyNone
             ELSE IF /\ \/ AllFields \in cfg.empty_optional_str_fields_to_none
                        \/ field.name \in cfg.empty_optional_str_fields_to_none
                     /\ ~field.required
             THEN PyNone
             ELSE PyStr(s)

\* The validator that runs on every field before pydantic's own.
PrepareStrValue(value, field, cfg) ==
    IF value.t # "str" THEN value
    ELSE LET s == IF cfg.anystr_strip_whitespace THEN Strip(value.s) ELSE value.s
         IN  IF field.type = "bool"
             THEN IF s = cfg.bool_value_pair.true THEN PyBool(TRUE)
                  ELSE IF s = cfg.bool_value_pair.false THEN PyBool(FALSE)
                  ELSE PyNone
             ELSE IF Len(s) > 0 THEN PyStr(s)
             ELSE IF field.type # "str" THEN PyNone
             ELSE IF /\ \/ AllFields \in cfg.empty_optional_str_fields_to_none
                        \/ field.name \in cfg.empty_optional_str_fields_to_none
                     /\ ~field.required
             THEN PyNone
             ELSE PyStr(s)

Digits == << "0", "1", "2", "3", "4", "5", "6", "7", "8", "9" >>

IsDigit(c) == \E d \in 1..Len(Digits) : Digits[d] = c

DigitValue(c) == (CHOOSE d \in 1..Len(Digits) : Digits[d] = c) - 1

RECURSIVE DigitsValue(_)
\* The number a run of decimal digits writes.
DigitsValue(s) ==
    IF Len(s) = 0 THEN 0
    ELSE 10 * DigitsValue(SubSeq(s, 1, Len(s) - 1)) + DigitValue(s[Len(s)])

\* int(s) of a str: whitespace around it ignored, an optional sign, then
\* one or more decimal digits.  [ok, v]: whether int() accepts s, and the value.
ParseInt(s) ==
    LET t == Strip(s)
        signed == Len(t) > 0 /\ t[1] \in {"+", "-"}
        body == IF signed THEN SubSeq(t, 2, Len(t)) ELSE t
        ok == Len(body) > 0 /\ \A i \in 1..Len(body) : IsDigit(body[i])
    IN  [ok |-> ok,
         v |-> IF ~ok THEN 0
               ELSE IF signed /\ t[1] = "-" THEN 0 - DigitsValue(body)
               ELSE DigitsValue(body)]

RECURSIVE WithoutTrailingZeros(_)
\* A run of digits without the zeros it ends with.
WithoutTrailingZeros(d) ==
    IF Len(d) > 0 /\ d[Len(d)] = "0" THEN WithoutTrailingZeros(SubSeq(d, 1, Len(d) - 1))
    ELSE d

\* float(s) of a str written in decimal: whitespace around it ignored, an
\* optional sign, digits with at most one point among them and at least one
\* digit.  Exponents, "inf", "nan" and underscores are left out: no value
\* the model uses has them.  [ok, v].
ParseFloat(s) ==
    LET t == Strip(s)
        signed == Len(t) > 0 /\ t[1] \in {"+", "-"}
        body == IF signed THEN SubSeq(t, 2, Len(t)) ELSE t
        points == {i \in 1..Len(body) : body[i] = "."}
        ok == /\ Cardinality(points) <= 1
              /\ \A i \in (1..Len(body)) \ points : IsDigit(body[i])
              /\ Len(body) > Cardinality(points)
        point == IF points = {} THEN Len(body) + 1 ELSE CHOOSE i \in points : TRUE
    IN  [ok |-> ok,
         v |-> IF ~ok THEN PyNone
               ELSE PyFloat(signed /\ t[1] = "-",
                            DigitsValue(SubSeq(body, 1, point - 1)),
                            WithoutTrailingZeros(SubSeq(body, point + 1, Len(body))))]

UpperCase ==
    << "A", "B", "C", "D", "E", "F", "G", "H", "I", "J", "K", "L", "M",
       "N", "O", "P", "Q", "R", "S", "T", "U", "V", "W", "X", "Y", "Z" >>

LowerCase ==
    << "a", "b", "c", "d", "e", "f", "g", "h", "i", "j", "k", "l", "m",
       "n", "o", "p", "q", "r", "s", "t", "u", "v", "w", "x", "y", "z" >>

\* str.lower() of a str of ASCII characters.
Lower(s) ==
    [i \in 1..Len(s) |->
        IF \E k \in 1..Len(UpperCase) : UpperCase[k] = s[i]
        THEN LowerCase[CHOOSE k \in 1..Len(UpperCase) : UpperCase[k] = s[i]]
        ELSE s[i]]

\* The strs pydantic takes for True and for False once lowered.
BoolStrsTrue ==
    { << "1" >>, << "o", "n" >>, << "t" >>, << "t", "r", "u", "e" >>,
      << "y" >>, << "y", "e", "s" >> }

BoolStrsFalse ==
    { << "0" >>, << "o", "f", "f" >>, << "f" >>, << "f", "a", "l", "s", "e" >>,
      << "n" >>, << "n", "o" >> }

\* pydantic's validation of one field once the pre-validator has run:
\* [ok, v].  None is refused for a required field and kept for an optional
\* one; a str is parsed for an int field and, with anystr_strip_whitespace,
\* stripped for a str field; a bool field takes a bool or one of the strs
\* pydantic reads as a bool.
Coerce(value, field, cfg) ==
    IF value.t = "NoneType" THEN [ok |-> ~field.required, v |-> PyNone]
    ELSE CASE field.type = "int" /\ value.t = "str" ->
                  LET p == ParseInt(value.s)
                  IN  [ok |-> p.ok, v |-> IF p.ok THEN PyInt(p.v) ELSE PyNone]
           [] field.type = "int" /\ value.t = "int" -> [ok |-> TRUE, v |-> value]
           [] field.type = "float" /\ value.t = "str" -> ParseFloat(value.s)
           [] field.type = "float" /\ value.t = "float" -> [ok |-> TRUE, v |-> value]
           [] field.type = "str" /\ value.t = "str" ->
                  [ok |-> TRUE,
                   v |-> IF cfg.anystr_strip_whitespace
                         THEN PyStr(Strip(value.s)) ELSE value]
           [] field.type = "bool" /\ value.t = "bool" -> [ok |-> TRUE, v |-> value]
           [] field.type = "bool" /\ value.t = "str" ->
                  IF Lower(value.s) \in BoolStrsTrue THEN [ok |-> TRUE, v |-> PyBool(TRUE)]
                  ELSE IF Lower(value.s) \in BoolStrsFalse THEN [ok |-> TRUE, v |-> PyBool(FALSE)]
                  ELSE [ok |-> FALSE, v |-> PyNone]

\* The outcome of one declared field: a key the mapping lacks leaves the
\* field unset (no validator runs), a key it has goes through the
\* pre-validator and then the type validation.
ValidateField(kwargs, field, cfg) ==
    IF field.name \notin DOMAIN kwargs
    THEN [ok |-> ~field.required, v |-> PyNone]
    ELSE Coerce(PrepareStrValue(PyStr(kwargs[field.name]), field, cfg), field, cfg)

\* output_model_cls(**kwargs) raising on the first field that fails.
ValidateModel_FirstFailureOnly(kwargs, fields, cfg) ==
    LET res == [i \in 1..Len(fields) |-> ValidateField(kwargs, fields[i], cfg)]
        bad == SelectSeq([i \in 1..Len(fields) |-> i], LAMBDA i : ~res[i].ok)
    IN  IF Len(bad) = 0
        THEN [ok |-> TRUE,
              model |-> [n \in {fields[i].name : i \in 1..Len(fields)} |->
                            res[CHOOSE i \in 1..Len(fields) : fields[i].name = n].v],
              error |-> Exception("none", << >>)]
        ELSE [ok |-> FALSE,
              model |-> << >>,
              error |-> Exception(ValidationError, << fields[bad[1]].name >>)]

\* output_model_cls(**kwargs): every declared field is validated, keys that
\* name no field are ignored, and the failures of all fields are raised
\* together as one ValidationError.
ValidateModel(kwargs, fields, cfg) ==
    LET res == [i \in 1..Len(fields) |-> ValidateField(kwargs, fields[i], cfg)]
        bad == SelectSeq([i \in 1..Len(fields) |-> i], LAMBDA i : ~res[i].ok)
    IN  IF Len(bad) = 0
        THEN [ok |-> TRUE,
              model |-> [n \in {fields[i].name : i \in 1..Len(fields)} |->
                            res[CHOOSE i \in 1..Len(fields) : fields[i].name = n].v],
              error |-> Exception("none", << >>)]
        ELSE [ok |-> FALSE,
              model |-> << >>,
              error |-> Exception(ValidationError,
                                  [k \in 1..Len(bad) |-> fields[bad[k]].name])]

----------------------------------------------------------------------------
(* mapping_strategies.py *)

ByModelFieldOrder == "MappingStrategyByModelFieldOrder"

ByHeader == "MappingStrategyByHeader"

\* The header a strategy holds once its __init__ has run: None in the base
\* class, which MappingStrategyByHeader.__init__ replaces by [].
InitialHeader(strategy) == IF strategy = ByHeader THEN Some(<< >>) ELSE None

\* A HeaderRemapField.
HeaderRemapField(header_field, model_attr) ==
    [header_field |-> header_field, model_attr |-> model_attr]

\* The configuration check that never fails.
ValidateCsvLoaderConfiguration_AlwaysTrue(strategy, loader_has_header) == TRUE

\* validate_csv_loader_configuration: TRUE, or FALSE where the code raises
\* HeaderNotSetError.
ValidateCsvLoaderConfiguration(strategy, loader_has_header) ==
    IF strategy = ByHeader THEN loader_has_header ELSE TRUE

RECURSIVE RemapFrom(_, _, _)
\* The loop of _remap_header_mapping from the i-th pair on.
RemapFrom(header_mapping, remap_list, i) ==
    IF i > Len(remap_list) THEN header_mapping
    ELSE LET f == remap_list[i]
         IN  IF f.header_field \in DOMAIN header_mapping
             THEN RemapFrom(
                      [k \in (DOMAIN header_mapping \ {f.header_field})
                                \cup {f.model_attr} |->
                          IF k = f.model_attr THEN header_mapping[f.header_field]
                          ELSE header_mapping[k]],
                      remap_list, i + 1)
             ELSE RemapFrom(header_mapping, remap_list, i + 1)

RECURSIVE RemapKeepingLabel(_, _, _)
\* The loop with a read in place of the pop: the label stays a key.
RemapKeepingLabel(header_mapping, remap_list, i) ==
    IF i > Len(remap_list) THEN header_mapping
    ELSE LET f == remap_list[i]
         IN  IF f.header_field \in DOMAIN header_mapping
             THEN RemapKeepingLabel(
                      [k \in DOMAIN header_mapping \cup {f.model_attr} |->
                          IF k = f.model_attr THEN header_mapping[f.header_field]
                          ELSE header_mapping[k]],
                      remap_list, i + 1)
             ELSE RemapKeepingLabel(header_mapping, remap_list, i + 1)

\* The rename that leaves the renamed label in the mapping.
RemapHeaderMapping_KeepingLabel(header_mapping, remap) ==
    IF ~Truthy(remap) THEN header_mapping
    ELSE RemapKeepingLabel(header_mapping, remap.v, 1)

\* The rename with every pair looking its label up in the mapping the zip
\* gave, not in the one the earlier pairs left.
RemapHeaderMapping_EveryPairOnTheZip(header_mapping, remap) ==
    IF ~Truthy(remap) THEN header_mapping
    ELSE LET hits == {i \in 1..Len(remap.v) : remap.v[i].header_field \in DOMAIN header_mapping}
         IN  [k \in (DOMAIN header_mapping \ {remap.v[i].header_field : i \in hits})
                       \cup {remap.v[i].model_attr : i \in hits} |->
                 IF \E i \in hits : remap.v[i].model_attr = k
                 THEN header_mapping[remap.v[CHOOSE i \in hits :
                          /\ remap.v[i].model_attr = k
                          /\ \A j \in hits : remap.v[j].model_attr = k => j <= i].header_field]
                 ELSE header_mapping[k]]

\* _remap_header_mapping: no table or an empty one returns the mapping as is.
RemapHeaderMapping(header_mapping, remap) ==
    IF ~Truthy(remap) THEN header_mapping
    ELSE RemapFrom(header_mapping, remap.v, 1)

\* What a create_model_param_dict call gives: a mapping, or the error raised.
Mapped(m) == [ok |-> TRUE, mapping |-> m, error |-> Exception("none", << >>)]

MappingRaises(kind) == [ok |-> FALSE, mapping |-> << >>, error |-> Exception(kind, << >>)]

\* The positional mapping that refuses a row longer than the model, as the
\* header-based one refuses a row longer than the header.
CreateModelParamDictByOrder_RefusesSurplus(field_names, row_values) ==
    IF Len(row_values) > Len(field_names) THEN MappingRaises(IndexOutOfHeaderBounds)
    ELSE Mapped(DictZip(field_names, row_values))

\* MappingStrategyByModelFieldOrder.create_model_param_dict
CreateModelParamDictByOrder(field_names, row_values) ==
    Mapped(DictZip(field_names, row_values))

\* MappingStrategyByHeader.create_model_param_dict
CreateModelParamDictByHeader(header, remap, row_values) ==
    IF ~Truthy(header) THEN MappingRaises(HeaderNotSetError)
    ELSE IF Len(row_values) > Len(header.v) THEN MappingRaises(IndexOutOfHeaderBounds)
    ELSE Mapped(RemapHeaderMapping(DictZip(header.v, row_values), remap))

----------------------------------------------------------------------------
(* The model class and the inputs the loader is run on *)

\* A declared field of the model class.
Field(name, type, required) == [name |-> name, type |-> type, required |-> required]

\* The class given as output_model_cls: a: int, b: Optional[str],
\* c: Optional[int], with the default Config.
ModelFields ==
    << Field(<< "a" >>, "int", TRUE),
       Field(<< "b" >>, "str", FALSE),
       Field(<< "c" >>, "int", FALSE) >>

FieldNames(fields) == [i \in 1..Len(fields) |-> fields[i].name]

\* The rows a source is made of: an empty line, header lines (with cells to
\* strip), rows that validate, a row where two fields fail, and a row longer
\* than the header and than the model, whose second cell is whitespace only.
Rows ==
    { << >>,
      << << " ", "a" >>, << "b", " " >>, << "c" >> >>,
      << << "A" >>, << "b" >>, << "c" >> >>,
      << << "1" >>, << " ", "x" >>, << "2" >> >>,
      << << " ", "2", "\t" >> >>,
      << << "x" >>, << >>, << "y" >> >>,
      << << "1" >>, << " " >>, << >>, << "y" >> >> }

\* The rename tables a header-based strategy is built with: none, or the
\* column "A" renamed to the field a.
RemapTables == { None, Some(<< HeaderRemapField(<< "A" >>, << "a" >>) >>) }

\* The sequences over S of length 0..n.
SeqsUpTo(S, n) == UNION {[1..k -> S] : k \in 0..n}

----------------------------------------------------------------------------
(* csv_loader.py: CSVLoader *)

\* No call has been made on the strategy alone.
NoCall ==
    [made |-> FALSE, row_values |-> << >>, header |-> None, header_set |-> FALSE,
     result |-> [ok |-> FALSE, mapping |-> << >>, error |-> Exception("none", << >>)]]

\* No value has been given to the validators.
NoNorm ==
    [made |-> FALSE, again_made |-> FALSE, value |-> PyNone,
     field |-> [name |-> << >>, type |-> "str", required |-> FALSE],
     cfg |-> CSVRowDefaultConfig, prepared |-> PyNone, again |-> PyNone,
     validated |-> [ok |-> FALSE, v |-> PyNone]]

\* No query has been made on a collection.
NoQuery == [op |-> "none", field_name |-> << >>, values |-> << >>, duplicates |-> << >>]

\* The caller has chosen the arguments of CSVLoader(...) and, when it passes
\* a strategy, has built it; nothing has been constructed or read.
Init ==
    /\ reader \in SeqsUpTo(Rows, MaxRows)
    /\ has_header \in BOOLEAN
    /\ aggregate_errors \in BOOLEAN
    /\ strategy_arg \in {"None", ByModelFieldOrder, ByHeader}
    /\ header_remap \in IF strategy_arg = ByHeader THEN RemapTables ELSE {None}
    /\ pc = "new"
    /\ mapping_strategy = "unbound"
    /\ strategy_header = InitialHeader(strategy_arg)
    /\ header_set = FALSE
    /\ result_rows = << >>
    /\ result_errors = << >>
    /\ result_header = << >>
    /\ line_number = 0
    /\ raised = << >>
    /\ outcomes = << >>
    /\ call = NoCall
    /\ norm = NoNorm
    /\ query = NoQuery

\* CSVLoader.__init__: bind the arguments, default the strategy to the
\* positional one, and let the strategy check the configuration.
Construct ==
    /\ pc = "new"
    /\ LET strategy == IF strategy_arg = "None" THEN ByModelFieldOrder
                       ELSE strategy_arg
       IN  /\ mapping_strategy' = strategy
           /\ strategy_header' = IF strategy_arg = "None" THEN InitialHeader(strategy)
                                 ELSE strategy_header
           /\ IF ValidateCsvLoaderConfiguration(strategy, has_header)
              THEN pc' = "ready" /\ raised' = raised
              ELSE /\ pc' = "config_error"
                   /\ raised' = Append(raised, Exception(HeaderNotSetError, << >>))
    /\ UNCHANGED << reader, has_header, aggregate_errors, strategy_arg, header_remap,
                    header_set, result_rows, result_errors, result_header,
                    line_number, outcomes, call, norm, query >>

\* read_rows is called: the result starts empty.
ReadRows ==
    /\ pc = "ready"
    /\ pc' = "reading"
    /\ result_rows' = << >>
    /\ result_errors' = << >>
    /\ result_header' = << >>
    /\ UNCHANGED << reader, has_header, aggregate_errors, strategy_arg, header_remap,
                    mapping_strategy, strategy_header, header_set, line_number,
                    raised, outcomes, call, norm, query >>

\* The header line taken unstripped.
StripHeader_Unstripped(row) == row

\* header = [field.strip() for field in row]
StripHeader(row) == [i \in 1..Len(row) |-> Strip(row[i])]

\* if self.has_header and line_number == 0
IsHeaderLine(ln) == has_header /\ ln = 0

\* self.mapping_strategy.create_model_param_dict(row_values=row)
CreateModelParamDict(strategy, header, remap, row_values) ==
    IF strategy = ByHeader THEN CreateModelParamDictByHeader(header, remap, row_values)
    ELSE CreateModelParamDictByOrder(FieldNames(ModelFields), row_values)

\* The try block: the mapping, then the model; [ok, model, error].
BuildRowModel(strategy, header, remap, row) ==
    LET m == CreateModelParamDict(strategy, header, remap, row)
    IN  IF ~m.ok THEN [ok |-> FALSE, model |-> << >>, error |-> m.error]
        ELSE ValidateModel(m.mapping, ModelFields, CSVRowDefaultConfig)

\* The new record put in front of the earlier ones.
AppendRow_InFront(rows, row_model) == << row_model >> \o rows

\* result.rows.append(row_model)
AppendRow(rows, row_model) == Append(rows, row_model)

\* The except block that aggregates whatever the flag says.
HandleRowError_AlwaysAggregate(error) ==
    /\ result_errors' = Append(result_errors, error)
    /\ UNCHANGED << raised, pc >>

\* The except block that raises whatever the flag says.
HandleRowError_AlwaysRaise(error) ==
    /\ raised' = Append(raised, error)
    /\ pc' = "raised"
    /\ UNCHANGED result_errors

\* The except block that drops the error when it does not raise it.
HandleRowError_Swallows(error) ==
    IF aggregate_errors
    THEN UNCHANGED << result_errors, raised, pc >>
    ELSE /\ raised' = Append(raised, error)
         /\ pc' = "raised"
         /\ UNCHANGED result_errors

\* The except block: aggregate the error, or raise it and stop reading.
HandleRowError(error) ==
    IF aggregate_errors
    THEN /\ result_errors' = Append(result_errors, error)
         /\ UNCHANGED << raised, pc >>
    ELSE /\ raised' = Append(raised, error)
         /\ pc' = "raised"
         /\ UNCHANGED result_errors

\* One turn of the loop of read_rows, on the row enumerate() gives next.
Iterate ==
    /\ pc = "reading"
    /\ line_number < Len(reader)
    /\ line_number' = line_number + 1
    /\ LET row == reader[line_number + 1]
       IN  IF IsHeaderLine(line_number)
           THEN /\ result_header' = StripHeader(row)
                /\ strategy_header' = Some(StripHeader(row))
                /\ header_set' = TRUE
                /\ outcomes' = Append(outcomes, "header")
                /\ UNCHANGED << result_rows, result_errors, raised, pc >>
           ELSE IF Len(row) = 0
           THEN /\ outcomes' = Append(outcomes, "skipped")
                /\ UNCHANGED << result_header, strategy_header, header_set,
                                result_rows, result_errors, raised, pc >>
           ELSE LET built == BuildRowModel(mapping_strategy, strategy_header,
                                           header_remap, row)
                IN  IF built.ok
                    THEN /\ result_rows' = AppendRow(result_rows, built.model)
                         /\ outcomes' = Append(outcomes, "record")
                         /\ UNCHANGED << result_header, strategy_header, header_set,
                                         result_errors, raised, pc >>
                    ELSE /\ HandleRowError(CSVValidationError(line_number, built.error))
                         /\ outcomes' = Append(outcomes, "error")
                         /\ UNCHANGED << result_header, strategy_header, header_set,
                                         result_rows >>
    /\ UNCHANGED << reader, has_header, aggregate_errors, strategy_arg, header_remap,
                    mapping_strategy, call, norm, query >>

\* CSVLoaderResult.has_errors
HasErrors == Len(result_errors) > 0

\* The source is exhausted: read_rows returns the result.
Return ==
    /\ pc = "reading"
    /\ line_number = Len(reader)
    /\ pc' = "returned"
    /\ UNCHANGED << reader, has_header, aggregate_errors, strategy_arg, header_remap,
                    mapping_strategy, strategy_header, header_set, result_rows,
                    result_errors, result_header, line_number, raised, outcomes,
                    call, norm, query >>

Next == Construct \/ ReadRows \/ Iterate \/ Return

Spec == Init /\ [][Next]_vars

----------------------------------------------------------------------------
(* A mapping strategy used alone, as the strategies' own tests use it *)

\* The headers given to set_header: empty, one or two labels, a repeated
\* label, and labels that the rename table covers.
MappingHeaders ==
    { << >>,
      << << "x" >> >>,
      << << "x" >>, << "y" >> >>,
      << << "x" >>, << "x" >> >>,
      << << "A" >>, << "b" >> >> }

\* The rows given to create_model_param_dict: none to four cells.
MappingRows ==
    { << >>,
      << << "1" >> >>,
      << << "1" >>, << "2" >> >>,
      << << "1" >>, << "2" >>, << "3" >> >>,
      << << "1" >>, << "2" >>, << "3" >>, << "4" >> >> }

\* The rename tables a strategy used alone is built with: none, an empty
\* one, one that renames a column, one that renames two, one whose second
\* pair renames what the first produced, one whose target is another column's
\* label, one that names a label twice, one that renames a label to itself,
\* and one whose second pair renames what the first produced to another
\* column's label.
MappingRemapTables ==
    { None,
      Some(<< >>),
      Some(<< HeaderRemapField(<< "A" >>, << "a" >>) >>),
      Some(<< HeaderRemapField(<< "x" >>, << "p" >>),
              HeaderRemapField(<< "y" >>, << "q" >>) >>),
      Some(<< HeaderRemapField(<< "x" >>, << "z" >>),
              HeaderRemapField(<< "z" >>, << "w" >>) >>),
      Some(<< HeaderRemapField(<< "x" >>, << "y" >>) >>),
      Some(<< HeaderRemapField(<< "x" >>, << "p" >>),
              HeaderRemapField(<< "x" >>, << "q" >>) >>),
      Some(<< HeaderRemapField(<< "y" >>, << "y" >>) >>),
      Some(<< HeaderRemapField(<< "x" >>, << "z" >>),
              HeaderRemapField(<< "z" >>, << "y" >>) >>) }

\* A strategy has been built for the model class; no loader is involved.
InitMapping ==
    /\ mapping_strategy \in {ByModelFieldOrder, ByHeader}
    /\ header_remap \in IF mapping_strategy = ByHeader THEN MappingRemapTables ELSE {None}
    /\ strategy_header = InitialHeader(mapping_strategy)
    /\ header_set = FALSE
    /\ pc = "strategy"
    /\ strategy_arg = mapping_strategy
    /\ reader = << >>
    /\ has_header = FALSE
    /\ aggregate_errors = FALSE
    /\ result_rows = << >>
    /\ result_errors = << >>
    /\ result_header = << >>
    /\ line_number = 0
    /\ raised = << >>
    /\ outcomes = << >>
    /\ call = NoCall
    /\ norm = NoNorm
    /\ query = NoQuery

\* MappingStrategyBase.set_header
SetHeader(header) ==
    /\ pc = "strategy"
    /\ strategy_header' = Some(header)
    /\ header_set' = TRUE
    /\ UNCHANGED << reader, has_header, aggregate_errors, strategy_arg, header_remap,
                    pc, mapping_strategy, result_rows, result_errors, result_header,
                    line_number, raised, outcomes, call, norm, query >>

\* create_model_param_dict(row_values) called on the strategy: the call is
\* recorded with the header the strategy held.
CallCreateModelParamDict(row_values) ==
    /\ pc = "strategy"
    /\ call' = [made |-> TRUE, row_values |-> row_values,
                header |-> strategy_header, header_set |-> header_set,
                result |-> CreateModelParamDict(mapping_strategy, strategy_header,
                                                header_remap, row_values)]
    /\ UNCHANGED << reader, has_header, aggregate_errors, strategy_arg, header_remap,
                    pc, mapping_strategy, strategy_header, header_set, result_rows,
                    result_errors, result_header, line_number, raised, outcomes,
                    norm, query >>

NextMapping ==
    \/ \E header \in MappingHeaders : SetHeader(header)
    \/ \E row_values \in MappingRows : CallCreateModelParamDict(row_values)

SpecMapping == InitMapping /\ [][NextMapping]_vars

----------------------------------------------------------------------------
(* The validators of CSVRow on one value: a model class with one field,
   a Config, and a cell. *)

\* The cells given to the field.
NormCells ==
    { << >>, << " " >>, << "1" >>, << " ", "1", "\t" >>, << "0" >>,
      << "x" >>, << "x", " " >>, << "Y", "E", "S" >>, << "N", "O" >>,
      << " ", "Y", "E", "S" >>, << "1", ".", "5" >>, << "-", "2" >> }

\* The field of the model class: its name, its declared type, required or
\* Optional.
NormFields ==
    { Field(name, type, required) :
        name \in {<< "a" >>, << "b" >>}, type \in FieldTypes, required \in BOOLEAN }

\* The Config of the model class: CSVRowDefaultConfig or a class overriding
\* some of its three settings.
NormConfigs ==
    { [anystr_strip_whitespace |-> strip,
       empty_optional_str_fields_to_none |-> eligible,
       bool_value_pair |-> pair] :
        strip \in BOOLEAN,
        eligible \in {{AllFields}, {}, {<< "a" >>}},
        pair \in {CSVRowDefaultConfig.bool_value_pair,
                  [true |-> << "Y", "E", "S" >>, false |-> << "N", "O" >>]} }

InitNormalize ==
    /\ reader = << >>
    /\ has_header = FALSE
    /\ aggregate_errors = FALSE
    /\ strategy_arg = None
    /\ header_remap = None
    /\ pc = "validators"
    /\ mapping_strategy = ByModelFieldOrder
    /\ strategy_header = None
    /\ header_set = FALSE
    /\ result_rows = << >>
    /\ result_errors = << >>
    /\ result_header = << >>
    /\ line_number = 0
    /\ raised = << >>
    /\ outcomes = << >>
    /\ call = NoCall
    /\ norm \in { [NoNorm EXCEPT !.value = PyStr(cell), !.field = field, !.cfg = cfg] :
                    cell \in NormCells, field \in NormFields, cfg \in NormConfigs }
    /\ query = NoQuery

\* The model class is given the cell for its field: prepare_str_value runs,
\* then pydantic's validation of the field.
ValidateValue ==
    /\ pc = "validators"
    /\ ~norm.made
    /\ LET prepared == PrepareStrValue(norm.value, norm.field, norm.cfg)
       IN  norm' = [norm EXCEPT !.made = TRUE,
                                !.prepared = prepared,
                                !.validated = Coerce(prepared, norm.field, norm.cfg)]
    /\ UNCHANGED << reader, has_header, aggregate_errors, strategy_arg, header_remap,
                    pc, mapping_strategy, strategy_header, header_set, result_rows,
                    result_errors, result_header, line_number, raised, outcomes,
                    call, query >>

\* prepare_str_value is given what it returned.
PrepareAgain ==
    /\ pc = "validators"
    /\ norm.made
    /\ ~norm.again_made
    /\ norm' = [norm EXCEPT !.again_made = TRUE,
                            !.again = PrepareStrValue(norm.prepared, norm.field, norm.cfg)]
    /\ UNCHANGED << reader, has_header, aggregate_errors, strategy_arg, header_remap,
                    pc, mapping_strategy, strategy_header, header_set, result_rows,
                    result_errors, result_header, line_number, raised, outcomes,
                    call, query >>

NextNormalize == ValidateValue \/ PrepareAgain

SpecNormalize == InitNormalize /\ [][NextNormalize]_vars

----------------------------------------------------------------------------
(* CSVRows: the helpers of a collection of records *)

\* The longest collection the helpers are asked about.
MaxCollection == 4

IdField == << "i", "d" >>

ValueField == << "v", "a", "l", "u", "e" >>

\* The records of a class with id: int and value: Optional[str].
RowModels ==
    { [name \in {IdField, ValueField} |-> IF name = IdField THEN id ELSE value] :
        id \in {PyInt(1), PyInt(2)},
        value \in {PyStr(<< "a", "b", "c" >>), PyStr(<< "m", "n", "o" >>), PyNone} }

InitRows ==
    /\ reader = << >>
    /\ has_header = FALSE
    /\ aggregate_errors = FALSE
    /\ strategy_arg = None
    /\ header_remap = None
    /\ pc = "rows"
    /\ mapping_strategy = ByModelFieldOrder
    /\ strategy_header = None
    /\ header_set = FALSE
    /\ result_rows \in SeqsUpTo(RowModels, MaxCollection)
    /\ result_errors = << >>
    /\ result_header = << >>
    /\ line_number = 0
    /\ raised = << >>
    /\ outcomes = << >>
    /\ call = NoCall
    /\ norm = NoNorm
    /\ query = NoQuery

\* [getattr(row, field_name) for row in self]
GetFieldValues(rows, field_name) == [i \in 1..Len(rows) |-> rows[i][field_name]]

\* The lists list(set(values)) can be: set() keeps one of each value and
\* iterates in the order of its hash table, which the code does not fix.
SetOrders(values) ==
    LET distinct == {values[i] : i \in 1..Len(values)}
    IN  { order \in [1..Cardinality(distinct) -> distinct] :
            \A i, j \in 1..Cardinality(distinct) : i # j => order[i] # order[j] }

\* get_field_values_unique without the set().
GetFieldValuesUnique_KeepsRepeats(rows, field_name) == {GetFieldValues(rows, field_name)}

\* The lists get_field_values_unique can return.
GetFieldValuesUnique(rows, field_name) == SetOrders(GetFieldValues(rows, field_name))

RECURSIVE CheckDict(_, _)
\* check_dict once the loop has taken the first k values: a dict keeps its
\* keys in the order they were first inserted; row_index counts from 0.
CheckDict(all_field_values, k) ==
    IF k = 0 THEN << >>
    ELSE LET d == CheckDict(all_field_values, k - 1)
             value == all_field_values[k]
             row_index == k - 1
         IN  IF \E e \in 1..Len(d) : d[e].value = value
             THEN [e \in 1..Len(d) |->
                      IF d[e].value = value
                      THEN [d[e] EXCEPT !.duplicate_rows = Append(@, row_index)]
                      ELSE d[e]]
             ELSE Append(d, [value |-> value, duplicate_rows |-> << row_index >>])

\* get_field_duplicates keeping every entry of check_dict.
GetFieldDuplicates_SingleOccurrences(rows, field_name) ==
    CheckDict(GetFieldValues(rows, field_name), Len(rows))

\* One CSVFieldDuplicate for each entry of check_dict found in more than
\* one row.
GetFieldDuplicates(rows, field_name) ==
    SelectSeq(CheckDict(GetFieldValues(rows, field_name), Len(rows)),
              LAMBDA entry : Len(entry.duplicate_rows) > 1)

CallGetFieldValues(field_name) ==
    /\ pc = "rows"
    /\ query' = [NoQuery EXCEPT !.op = "get_field_values",
                                !.field_name = field_name,
                                !.values = GetFieldValues(result_rows, field_name)]
    /\ UNCHANGED << reader, has_header, aggregate_errors, strategy_arg, header_remap,
                    pc, mapping_strategy, strategy_header, header_set, result_rows,
                    result_errors, result_header, line_number, raised, outcomes,
                    call, norm >>

CallGetFieldValuesUnique(field_name) ==
    /\ pc = "rows"
    /\ \E values \in GetFieldValuesUnique(result_rows, field_name) :
           query' = [NoQuery EXCEPT !.op = "get_field_values_unique",
                                   !.field_name = field_name,
                                   !.values = values]
    /\ UNCHANGED << reader, has_header, aggregate_errors, strategy_arg, header_remap,
                    pc, mapping_strategy, strategy_header, header_set, result_rows,
                    result_errors, result_header, line_number, raised, outcomes,
                    call, norm >>

CallGetFieldDuplicates(field_name) ==
    /\ pc = "rows"
    /\ query' = [NoQuery EXCEPT !.op = "get_field_duplicates",
                                !.field_name = field_name,
                                !.duplicates = GetFieldDuplicates(result_rows, field_name)]
    /\ UNCHANGED << reader, has_header, aggregate_errors, strategy_arg, header_remap,
                    pc, mapping_strategy, strategy_header, header_set, result_rows,
                    result_errors, result_header, line_number, raised, outcomes,
                    call, norm >>

NextRows ==
    \E field_name \in {IdField, ValueField} :
        \/ CallGetFieldValues(field_name)
        \/ CallGetFieldValuesUnique(field_name)
        \/ CallGetFieldDuplicates(field_name)

SpecRows == InitRows /\ [][NextRows]_vars

----------------------------------------------------------------------------
(* What a load should have done, computed from the source alone *)

\* The load has started.
Loading == pc \in {"reading", "returned", "raised"}

\* The header the strategy holds when the row at index k is mapped.
HeaderAt(k) ==
    IF has_header /\ k >= 1
    THEN Some([i \in 1..Len(reader[1]) |-> Strip(reader[1][i])])
    ELSE InitialHeader(mapping_strategy)

\* The row at index k is neither the header line nor a zero-length row.
RowIsData(k) == ~(has_header /\ k = 0) /\ Len(reader[k + 1]) > 0

\* What mapping and validating the row at index k gives.
RowBuilt(k) == BuildRowModel(mapping_strategy, HeaderAt(k), header_remap, reader[k + 1])

RowFails(k) == RowIsData(k) /\ ~RowBuilt(k).ok

RowSucceeds(k) == RowIsData(k) /\ RowBuilt(k).ok

\* The indexes below n of the rows that fail.
FailingBelow(n) == {k \in 0..(n - 1) : RowFails(k)}

RECURSIVE ExpectedRecords(_)
\* The records of the rows below index n that validate, in source order.
ExpectedRecords(n) ==
    IF n = 0 THEN << >>
    ELSE IF RowSucceeds(n - 1)
         THEN Append(ExpectedRecords(n - 1), RowBuilt(n - 1).model)
         ELSE ExpectedRecords(n - 1)

\* s is s2 or a beginning of it.
IsPrefix(s, s2) == Len(s) <= Len(s2) /\ SubSeq(s2, 1, Len(s)) = s

\* The line numbers of a sequence of errors increase strictly.
Increasing(errors) ==
    \A i, j \in 1..Len(errors) : i < j => errors[i].line_number < errors[j].line_number

LineNumbers(errors) == {errors[i].line_number : i \in 1..Len(errors)}

----------------------------------------------------------------------------
(* The claims *)

\* C1: in fail-fast mode, when the first failing row is at index k, read_rows
\* raises exactly one CSVValidationError, with line_number k; no row after k
\* is consumed or becomes a record; and no result is returned.
C1_FailFast ==
    (~aggregate_errors /\ Loading) =>
        /\ Len(raised) <= 1
        /\ result_errors = << >>
        /\ pc = "returned" => FailingBelow(Len(reader)) = {}
        /\ pc = "reading" => raised = << >> /\ FailingBelow(line_number) = {}
        /\ pc = "raised" =>
              /\ Len(raised) = 1
              /\ raised[1].kind = "CSVValidationError"
              /\ RowFails(raised[1].line_number)
              /\ FailingBelow(raised[1].line_number) = {}
              /\ line_number = raised[1].line_number + 1
              /\ Len(outcomes) = line_number
              /\ Len(result_rows) =
                     Cardinality({k \in 0..(raised[1].line_number - 1) : RowSucceeds(k)})

\* A fail-fast load stops at a bad row at index 1 that good rows follow.
C1_Witness ==
    /\ ~aggregate_errors
    /\ pc = "raised"
    /\ raised[1].line_number = 1
    /\ Len(reader) = 3
    /\ RowSucceeds(0)
    /\ RowSucceeds(2)

\* C2: in aggregate mode read_rows never raises a row-level error, consumes
\* every row, and returns a result with exactly one error per failing row in
\* encounter order; has_errors() is true exactly when some row failed.
C2_Aggregate ==
    (aggregate_errors /\ Loading) =>
        /\ raised = << >>
        /\ pc # "raised"
        /\ Increasing(result_errors)
        /\ LineNumbers(result_errors) = FailingBelow(line_number)
        /\ pc = "returned" =>
              /\ line_number = Len(reader)
              /\ Len(outcomes) = Len(reader)
              /\ Len(result_errors) = Cardinality(FailingBelow(Len(reader)))
              /\ HasErrors <=> (\E k \in 0..(Len(reader) - 1) : RowFails(k))

\* An aggregate load returns with two errors and a record between them.
C2_Witness ==
    /\ aggregate_errors
    /\ pc = "returned"
    /\ outcomes = << "error", "record", "error" >>
    /\ Len(result_errors) = 2
    /\ Len(result_rows) = 1

\* C3: at every point of a load the records are exactly those of the rows
\* consumed so far that validate, in source order, and a step only ever
\* appends to them.
C3_RecordsInSourceOrder ==
    /\ [](Loading => result_rows = ExpectedRecords(line_number))
    /\ [][Loading => IsPrefix(result_rows, result_rows')]_vars

\* Two different records were appended around a failed row.
C3_Witness ==
    /\ Loading
    /\ outcomes = << "record", "error", "record" >>
    /\ Len(result_rows) = 2
    /\ result_rows[1] # result_rows[2]

\* C4: a zero-length row is skipped at every position in both header modes:
\* no record, no error, and never taken as data or as the header.
C4_ZeroLengthRowSkipped ==
    Loading =>
        \A k \in 0..(line_number - 1) :
            Len(reader[k + 1]) = 0 => outcomes[k + 1] = "skipped"

\* C5: with header mode on the header is captured once, from the row at index
\* 0, as that row's cells stripped; it is stored in the result and given to
\* the strategy, yields no record and no error, and no later row changes it.
\* With header mode off the result's header stays empty and the row at index
\* 0 is handled as data.
C5_HeaderCapturedOnce ==
    /\ [](Loading =>
            IF has_header
            THEN /\ line_number = 0 =>
                       /\ result_header = << >>
                       /\ strategy_header = InitialHeader(mapping_strategy)
                 /\ line_number >= 1 =>
                       /\ result_header = [i \in 1..Len(reader[1]) |-> Strip(reader[1][i])]
                       /\ strategy_header = Some(result_header)
                       /\ {i \in 1..Len(outcomes) : outcomes[i] = "header"} = {1}
                 /\ line_number = 1 =>
                       result_rows = << >> /\ result_errors = << >> /\ raised = << >>
            ELSE /\ result_header = << >>
                 /\ strategy_header = InitialHeader(mapping_strategy)
                 /\ \A i \in 1..Len(outcomes) : outcomes[i] # "header"
                 /\ (line_number >= 1 /\ Len(reader[1]) > 0) =>
                       outcomes[1] \in {"record", "error"})
    /\ [][(Loading /\ line_number >= 1) =>
              /\ result_header' = result_header
              /\ strategy_header' = strategy_header]_vars

\* A header with cells to strip was captured and two more rows were read.
C5_Witness ==
    /\ has_header
    /\ line_number = 3
    /\ result_header # reader[1]
    /\ Len(result_header) = 3
    /\ Len(result_rows) >= 1

\* C6: the line_number of every error is the failing row's 0-based index in
\* the iteration over the source: the header line and the skipped rows count.
C6_LineNumberIsIndex ==
    Loading =>
        \A e \in {result_errors[i] : i \in 1..Len(result_errors)}
                 \cup {raised[i] : i \in 1..Len(raised)} :
            /\ e.line_number \in 0..(line_number - 1)
            /\ RowFails(e.line_number)
            /\ outcomes[e.line_number + 1] = "error"
            /\ e.original_error = RowBuilt(e.line_number).error

\* With a header line and then a zero-length row, the row at index 2 fails.
C6_Witness ==
    /\ has_header
    /\ line_number = 3
    /\ outcomes = << "header", "skipped", "error" >>
    /\ \/ Len(result_errors) = 1 /\ result_errors[1].line_number = 2
       \/ Len(raised) = 1 /\ raised[1].line_number = 2

\* C7: constructing a loader with the header-based strategy and header mode
\* off raises HeaderNotSetError before any row is read, whatever the
\* aggregate flag; constructing without a strategy never fails and binds the
\* positional strategy.
C7_ConfigurationChecked ==
    pc # "new" =>
        /\ (strategy_arg = ByHeader /\ ~has_header) =>
              /\ pc = "config_error"
              /\ raised = << Exception(HeaderNotSetError, << >>) >>
              /\ line_number = 0
              /\ outcomes = << >>
        /\ strategy_arg = "None" =>
              /\ pc # "config_error"
              /\ mapping_strategy = ByModelFieldOrder
        /\ pc = "config_error" => (strategy_arg = ByHeader /\ ~has_header)

\* The constructor refused the header-based strategy in aggregate mode, on
\* a source that has rows.
C7_Witness ==
    /\ pc = "config_error"
    /\ aggregate_errors
    /\ strategy_arg = ByHeader
    /\ Len(reader) > 0

\* C8: HeaderNotSetError surfaces at construction only: no entry of a
\* result's error list has it as its original error.
C8_HeaderNotSetNeverAggregated ==
    \A i \in 1..Len(result_errors) :
        result_errors[i].original_error.kind # HeaderNotSetError

\* C9: the header-based strategy tells "no header captured" from "the empty
\* header captured": after set_header([]) a row with cells gets the
\* out-of-bounds failure and a row without cells the empty mapping, and the
\* header-not-set failure occurs only when set_header was never called.
C9_AbsentDistinctFromEmpty ==
    (call.made /\ mapping_strategy = ByHeader) =>
        /\ (call.result.error.kind = HeaderNotSetError) <=> ~call.header_set
        /\ (call.header_set /\ call.header.v = << >>) =>
              IF Len(call.row_values) > 0
              THEN call.result.error.kind = IndexOutOfHeaderBounds
              ELSE call.result.ok /\ DOMAIN call.result.mapping = {}

\* C10: header-based mapping without a rename table: with header h and a row
\* r no longer than h, the mapping binds h[i] to r[i] for every cell and has
\* no other key; a longer row fails with IndexOutOfHeaderBounds; with no
\* header set the call fails with HeaderNotSetError.
C10_HeaderZip ==
    (call.made /\ mapping_strategy = ByHeader /\ header_remap = None) =>
        IF ~call.header_set
        THEN call.result.error.kind = HeaderNotSetError
        ELSE LET h == call.header.v
                 r == call.row_values
             IN  IF Len(r) <= Len(h)
                 THEN /\ call.result.ok
                      /\ DOMAIN call.result.mapping = {h[i] : i \in 1..Len(r)}
                      /\ \A i \in 1..Len(r) : call.result.mapping[h[i]] = r[i]
                 ELSE call.result.error.kind = IndexOutOfHeaderBounds

\* C11: positional mapping: with declared fields f1..fn and any row r, the
\* mapping binds fi to r[i] for every i up to the shorter length and has no
\* other key; surplus cells are dropped without a failure; a field the row
\* does not reach is unset, which fails validation when the field is
\* required and leaves it absent when it is optional.
C11_PositionalZip ==
    (call.made /\ mapping_strategy = ByModelFieldOrder) =>
        LET r == call.row_values
            n == Len(ModelFields)
            m == call.result.mapping
            validated == ValidateModel(m, ModelFields, CSVRowDefaultConfig)
        IN  /\ call.result.ok
            /\ DOMAIN m = {ModelFields[i].name : i \in 1..Min(n, Len(r))}
            /\ \A i \in 1..Min(n, Len(r)) : m[ModelFields[i].name] = r[i]
            /\ \A i \in (Len(r) + 1)..n :
                  IF ModelFields[i].required
                  THEN /\ ~validated.ok
                       /\ \E j \in 1..Len(validated.error.fields) :
                              validated.error.fields[j] = ModelFields[i].name
                  ELSE validated.ok => validated.model[ModelFields[i].name] = PyNone

\* A row with one cell more than the model has fields was mapped.
C11_Witness ==
    /\ call.made
    /\ mapping_strategy = ByModelFieldOrder
    /\ Len(call.row_values) = Len(ModelFields) + 1
    /\ call.result.ok
    /\ Cardinality(DOMAIN call.result.mapping) = Len(ModelFields)

\* The pairs of the rename table of the strategy, none when it has no table.
RemapPairs == IF header_remap.none THEN << >> ELSE header_remap.v

\* What the zip of the header with the row of the last call gives.
Zipped == DictZip(call.header.v, call.row_values)

\* A header-based strategy mapped a row with the last call.
Renamed == call.made /\ mapping_strategy = ByHeader /\ call.result.ok

\* The statements of the claim about the rename table, for a mapping m made
\* from the zip z by the pairs t.
RenameStatements(z, t, m) ==
    /\ \A i \in 1..Len(t) :
          t[i].header_field \in DOMAIN z =>
              /\ t[i].model_attr \in DOMAIN m
              /\ m[t[i].model_attr] = z[t[i].header_field]
              /\ t[i].header_field \notin DOMAIN m
    /\ \A k \in DOMAIN z :
          (\A i \in 1..Len(t) : t[i].header_field # k) => (k \in DOMAIN m /\ m[k] = z[k])
    /\ DOMAIN m \subseteq
          {k \in DOMAIN z : \A i \in 1..Len(t) : t[i].header_field # k}
              \cup {t[i].model_attr : i \in {j \in 1..Len(t) : t[j].header_field \in DOMAIN z}}

\* The labels of the table differ from each other, its targets differ from
\* each other, and no target is a key of the zip or a label of the table.
CollisionFree(z, t) ==
    /\ \A i, j \in 1..Len(t) :
          i # j => (t[i].header_field # t[j].header_field
                    /\ t[i].model_attr # t[j].model_attr)
    /\ \A i \in 1..Len(t) :
          /\ t[i].model_attr \notin DOMAIN z
          /\ \A j \in 1..Len(t) : t[i].model_attr # t[j].header_field

\* C12 as stated: for every rename table, a pair whose label is a key of the
\* mapping moves the value to its target and the label is no longer a key;
\* a key no pair covers keeps its label and value; a pair whose label is not
\* in the mapping has no effect.
C12_RenameAsStated == Renamed => RenameStatements(Zipped, RemapPairs, call.result.mapping)

\* C12 as amended: the same, for a table whose labels are distinct, whose
\* targets are distinct, and none of whose targets is a header label of the
\* mapping or a label of the table; and a call never changes the header the
\* strategy holds.
C12_RenameCollisionFree ==
    /\ []((Renamed /\ CollisionFree(Zipped, RemapPairs)) =>
              RenameStatements(Zipped, RemapPairs, call.result.mapping))
    /\ [][call' # call => strategy_header' = strategy_header]_vars

\* Two columns were renamed by a table of two pairs.
C12_Witness ==
    /\ Renamed
    /\ Len(RemapPairs) = 2
    /\ CollisionFree(Zipped, RemapPairs)
    /\ \A i \in 1..2 : RemapPairs[i].header_field \in DOMAIN Zipped
    /\ DOMAIN call.result.mapping = {<< "p" >>, << "q" >>}

----------------------------------------------------------------------------
(* Claims about the validators of CSVRow *)

\* The value prepare_str_value works on once its strip step has run.
StrippedCell == IF norm.cfg.anystr_strip_whitespace THEN Strip(norm.value.s) ELSE norm.value.s

\* An absent value: a validation failure for a required field, None for an
\* optional one.
AbsentValidated ==
    IF norm.field.required THEN ~norm.validated.ok
    ELSE norm.validated.ok /\ norm.validated.v = PyNone

\* C13: for a bool field and the configured pair (T, F), a cell whose
\* stripped value is T becomes True, one whose stripped value is F becomes
\* False and every other cell, the empty one too, becomes None; None fails
\* validation for a required bool field and is the value of an optional one.
C13_BoolLiterals ==
    (norm.made /\ norm.field.type = "bool") =>
        /\ StrippedCell = norm.cfg.bool_value_pair.true =>
               norm.prepared = PyBool(TRUE) /\ norm.validated = [ok |-> TRUE, v |-> PyBool(TRUE)]
        /\ StrippedCell = norm.cfg.bool_value_pair.false =>
               norm.prepared = PyBool(FALSE) /\ norm.validated = [ok |-> TRUE, v |-> PyBool(FALSE)]
        /\ StrippedCell \notin {norm.cfg.bool_value_pair.true, norm.cfg.bool_value_pair.false} =>
               norm.prepared = PyNone /\ AbsentValidated

\* A required bool field was given a cell that is neither literal and not
\* empty, and failed.
C13_Witness ==
    /\ norm.made
    /\ norm.field.type = "bool"
    /\ norm.field.required
    /\ Len(StrippedCell) > 0
    /\ norm.prepared = PyNone
    /\ ~norm.validated.ok

\* C14: a cell that is empty once stripped, for a field whose declared
\* type is not str, becomes None whatever the eligible set holds: a
\* required int or float (or bool) field then fails validation, an optional
\* one is None.
C14_EmptyNonStringAbsent ==
    (norm.made /\ norm.field.type # "str" /\ StrippedCell = << >>) =>
        /\ norm.prepared = PyNone
        /\ AbsentValidated

\* Empty cells of a required float field and of an optional int field
\* whose name is not in the eligible set, which holds no all-fields token.
C14_Witness ==
    /\ norm.made
    /\ StrippedCell = << >>
    /\ Len(norm.value.s) > 0
    /\ norm.cfg.empty_optional_str_fields_to_none = {<< "a" >>}
    /\ norm.field.name = << "b" >>
    /\ \/ norm.field.type = "float" /\ norm.field.required /\ ~norm.validated.ok
       \/ norm.field.type = "int" /\ ~norm.field.required
              /\ norm.validated = [ok |-> TRUE, v |-> PyNone]

\* Whether the Config makes the field's empty str None.
Eligible ==
    /\ ~norm.field.required
    /\ \/ norm.field.name \in norm.cfg.empty_optional_str_fields_to_none
       \/ AllFields \in norm.cfg.empty_optional_str_fields_to_none

\* C15: a cell that is empty once stripped, for a str field, becomes None
\* if and only if the field is optional and its name or the all-fields
\* token is in the eligible set; in every other case, a required field
\* named in the set included, the empty str is kept.
C15_EmptyStringAbsentIffEligible ==
    (norm.made /\ norm.field.type = "str" /\ StrippedCell = << >>) =>
        /\ norm.prepared = PyNone <=> Eligible
        /\ Eligible => norm.validated = [ok |-> TRUE, v |-> PyNone]
        /\ ~Eligible => /\ norm.prepared = PyStr(<< >>)
                        /\ norm.validated = [ok |-> TRUE, v |-> PyStr(<< >>)]

\* A required str field named in the eligible set kept its empty str.
C15_Witness ==
    /\ norm.made
    /\ norm.field = Field(<< "a" >>, "str", TRUE)
    /\ norm.cfg.empty_optional_str_fields_to_none = {<< "a" >>}
    /\ StrippedCell = << >>
    /\ norm.validated = [ok |-> TRUE, v |-> PyStr(<< >>)]

\* The cell has no whitespace at either end.
AlreadyStripped == Strip(norm.value.s) = norm.value.s

\* C16 as stated: prepare_str_value returns an already-stripped value as it
\* is, and returns its own output unchanged.
C16_IdempotentAsStated ==
    /\ (norm.made /\ AlreadyStripped) => norm.prepared = norm.value
    /\ norm.again_made => norm.again = norm.prepared

\* C16: prepare_str_value returns an already-stripped value as it is
\* unless the field is a bool field or the value is empty, when it returns
\* what the boolean and empty rules say (a bool, None or the empty str); and
\* it returns its own output unchanged, for every field and Config.
C16_Idempotent ==
    /\ (norm.made /\ AlreadyStripped /\ norm.field.type # "bool" /\ Len(norm.value.s) > 0) =>
           norm.prepared = norm.value
    /\ (norm.made /\ AlreadyStripped) =>
           norm.prepared \in {norm.value, PyNone, PyBool(TRUE), PyBool(FALSE)}
    /\ norm.again_made => norm.again = norm.prepared

\* The output given back to prepare_str_value was a bool, and elsewhere
\* None, and elsewhere a stripped str that the cell was not.
C16_Witness ==
    /\ norm.again_made
    /\ \/ norm.prepared = PyBool(TRUE)
       \/ norm.prepared = PyNone
       \/ norm.prepared.t = "str" /\ norm.prepared # norm.value

----------------------------------------------------------------------------
(* Claims about the helpers of CSVRows *)

\* The indices, counted from 0, of the records of the collection whose
\* field holds the value.
IndicesOf(field_name, value) ==
    {i \in 0..(Len(result_rows) - 1) : result_rows[i + 1][field_name] = value}

\* The values the field takes in the collection.
ValuesOf(field_name) == {result_rows[i][field_name] : i \in 1..Len(result_rows)}

Elements(seq) == {seq[i] : i \in 1..Len(seq)}

Ascending(seq) == \A i, j \in 1..Len(seq) : i < j => seq[i] < seq[j]

\* C17: get_field_duplicates(name) returns exactly one group for each value
\* of the field found in more than one record and none for a value found
\* once; a group lists, in ascending order, every index of the collection
\* that holds its value, and the groups partition those indices.
C17_DuplicateGroups ==
    query.op = "get_field_duplicates" =>
        LET name == query.field_name
            d == query.duplicates
            repeated == {v \in ValuesOf(name) : Cardinality(IndicesOf(name, v)) > 1}
        IN  /\ \A v \in repeated : Cardinality({e \in 1..Len(d) : d[e].value = v}) = 1
            /\ \A e \in 1..Len(d) : d[e].value \in repeated
            /\ \A e \in 1..Len(d) :
                   /\ Ascending(d[e].duplicate_rows)
                   /\ Elements(d[e].duplicate_rows) = IndicesOf(name, d[e].value)
            /\ \A e, f \in 1..Len(d) :
                   e # f => Elements(d[e].duplicate_rows) \cap Elements(d[f].duplicate_rows) = {}
            /\ UNION {Elements(d[e].duplicate_rows) : e \in 1..Len(d)}
                   = UNION {IndicesOf(name, v) : v \in repeated}

\* Field values [mno, mno, mno, abc]: one group, for mno, listing 0, 1, 2.
C17_Witness ==
    /\ query.op = "get_field_duplicates"
    /\ query.field_name = ValueField
    /\ Len(result_rows) = 4
    /\ result_rows[4][ValueField] = PyStr(<< "a", "b", "c" >>)
    /\ query.duplicates =
           << [value |-> PyStr(<< "m", "n", "o" >>), duplicate_rows |-> << 0, 1, 2 >>] >>

\* C18: get_field_values returns one value per record in the order of the
\* collection; get_field_values_unique returns each distinct value of the
\* field exactly once, the same set of values, in whatever order.
C18_FieldValues ==
    /\ query.op = "get_field_values" =>
           /\ Len(query.values) = Len(result_rows)
           /\ \A i \in 1..Len(result_rows) :
                  query.values[i] = result_rows[i][query.field_name]
    /\ query.op = "get_field_values_unique" =>
           /\ Elements(query.values) = ValuesOf(query.field_name)
           /\ Cardinality(Elements(query.values)) = Len(query.values)

\* A collection with a repeated value gave fewer unique values than it has
\* records, and not in the order the values first appear.
C18_Witness ==
    /\ query.op = "get_field_values_unique"
    /\ 1 < Len(query.values)
    /\ Len(query.values) < Len(result_rows)
    /\ query.values[1] # result_rows[1][query.field_name]

----------------------------------------------------------------------------
(* Claims about the records and errors of a load *)

\* The declared fields that fail for the row at index k once it is mapped.
FailingFields(k) ==
    LET m == CreateModelParamDict(mapping_strategy, HeaderAt(k), header_remap, reader[k + 1])
    IN  { ModelFields[i].name : i \in
            {j \in 1..Len(ModelFields) :
                ~ValidateField(m.mapping, ModelFields[j], CSVRowDefaultConfig).ok} }

\* Every error that reached the caller or the result.
AllErrors == result_errors \o raised

\* C19: when k declared fields of a row fail, the one error raised or
\* aggregated for the row carries all k failures, each once.
C19_AllFieldFailuresTogether ==
    Loading =>
        /\ \A i, j \in 1..Len(AllErrors) :
               i # j => AllErrors[i].line_number # AllErrors[j].line_number
        /\ \A i \in 1..Len(AllErrors) :
               LET e == AllErrors[i].original_error
               IN  e.kind = ValidationError =>
                       /\ Elements(e.fields) = FailingFields(AllErrors[i].line_number)
                       /\ Len(e.fields) = Cardinality(FailingFields(AllErrors[i].line_number))
        /\ \A k \in 0..(line_number - 1) :
               (RowIsData(k) /\ CreateModelParamDict(mapping_strategy, HeaderAt(k), header_remap,
                                                     reader[k + 1]).ok
                  /\ FailingFields(k) # {}) =>
                   \E i \in 1..Len(AllErrors) :
                       /\ AllErrors[i].line_number = k
                       /\ AllErrors[i].original_error.kind = ValidationError

\* A row in which two fields fail was aggregated and another was raised.
C19_Witness ==
    /\ Loading
    /\ \E i \in 1..Len(AllErrors) : Len(AllErrors[i].original_error.fields) = 2
    /\ \/ aggregate_errors /\ pc = "returned"
       \/ ~aggregate_errors /\ pc = "raised"

\* A field of the model class whose empty str the Config turns to None.
EligibleField(field) ==
    /\ field.type = "str"
    /\ ~field.required
    /\ \/ AllFields \in CSVRowDefaultConfig.empty_optional_str_fields_to_none
       \/ field.name \in CSVRowDefaultConfig.empty_optional_str_fields_to_none

\* C20: with anystr_strip_whitespace set, every str value of every record
\* of a result has no whitespace at either end, and no optional str field
\* eligible for the conversion of empty to None holds the empty str.
C20_RecordsNormalized ==
    (Loading /\ CSVRowDefaultConfig.anystr_strip_whitespace) =>
        \A r \in 1..Len(result_rows) : \A i \in 1..Len(ModelFields) :
            LET value == result_rows[r][ModelFields[i].name]
            IN  /\ value.t = "str" => Strip(value.s) = value.s
                /\ EligibleField(ModelFields[i]) => value # PyStr(<< >>)

\* A result holds a record made from a cell with whitespace around its
\* text and a record made from a cell of whitespace only.
C20_Witness ==
    /\ pc = "returned"
    /\ \E r \in 1..Len(result_rows) :
           result_rows[r][<< "b" >>] = PyStr(<< "x" >>)
    /\ \E r \in 1..Len(result_rows) :
           result_rows[r][<< "b" >>] = PyNone
    /\ \E k \in 1..Len(reader) : Len(reader[k]) > 1 /\ reader[k][2] = << " " >>
    /\ Len(result_rows) = Len(reader)

\* The rows below index n that are zero-length and not the header line.
SkippedBelow(n) ==
    {k \in 0..(n - 1) : ~(has_header /\ k = 0) /\ Len(reader[k + 1]) = 0}

\* 1 when a header line has been captured, 0 when none has.
HeaderCaptured == IF header_set THEN 1 ELSE 0

\* The four things the row consumed by a step can have done.
BecameHeader ==
    /\ ~header_set /\ header_set'
    /\ result_header' = [i \in 1..Len(reader[line_number + 1]) |->
                             Strip(reader[line_number + 1][i])]
    /\ UNCHANGED << result_rows, result_errors, raised >>

WasSkipped == UNCHANGED << header_set, result_header, result_rows, result_errors, raised >>

AddedOneRecord ==
    /\ Len(result_rows') = Len(result_rows) + 1
    /\ IsPrefix(result_rows, result_rows')
    /\ UNCHANGED << header_set, result_header, result_errors, raised >>

AddedOrRaisedOneError ==
    /\ \/ /\ Len(result_errors') = Len(result_errors) + 1
          /\ IsPrefix(result_errors, result_errors')
          /\ UNCHANGED raised
       \/ /\ Len(raised') = Len(raised) + 1
          /\ IsPrefix(raised, raised')
          /\ UNCHANGED result_errors
    /\ UNCHANGED << header_set, result_header, result_rows >>

\* A record holds a value for every declared field, and one that is not
\* None for every required field.
WholeRecord(record) ==
    /\ DOMAIN record = Elements(FieldNames(ModelFields))
    /\ \A i \in 1..Len(ModelFields) :
           ModelFields[i].required => record[ModelFields[i].name] # PyNone

\* C21: every consumed row is the captured header, or is skipped, or adds
\* exactly one record, or adds or raises exactly one error, never two of
\* these; every record is whole; and at every point of an aggregate load
\* records + errors + skipped rows + the header row (if captured) is the
\* number of rows consumed.
C21_OneOutcomePerRow ==
    /\ [][line_number' = line_number + 1 =>
              /\ (IF BecameHeader THEN 1 ELSE 0) + (IF WasSkipped THEN 1 ELSE 0)
                    + (IF AddedOneRecord THEN 1 ELSE 0)
                    + (IF AddedOrRaisedOneError THEN 1 ELSE 0) = 1
              /\ WasSkipped <=> line_number \in SkippedBelow(Len(reader))]_vars
    /\ [](Loading => \A r \in 1..Len(result_rows) : WholeRecord(result_rows[r]))
    /\ []((Loading /\ aggregate_errors) =>
              Len(result_rows) + Len(result_errors) + Cardinality(SkippedBelow(line_number))
                  + HeaderCaptured = line_number)

\* An aggregate load has consumed a header line, a row that became a record
\* and a row that became an error.
C21_Witness ==
    /\ aggregate_errors
    /\ pc = "returned"
    /\ line_number = 3
    /\ HeaderCaptured = 1
    /\ Len(result_rows) = 1
    /\ Len(result_errors) = 1

----------------------------------------------------------------------------
(* Claims about the order of the rename pairs *)

\* The mapping m once one pair has acted on it.
AfterPair(m, pair) ==
    IF pair.header_field \notin DOMAIN m THEN m
    ELSE [k \in (DOMAIN m \ {pair.header_field}) \cup {pair.model_attr} |->
             IF k = pair.model_attr THEN m[pair.header_field] ELSE m[k]]

RECURSIVE AfterPairs(_, _, _)
\* The mapping z once the first n pairs of t have acted, in list order.
AfterPairs(z, t, n) ==
    IF n = 0 THEN z ELSE AfterPair(AfterPairs(z, t, n - 1), t[n])

\* C22: the pairs act one after the other in list order, each on the
\* mapping the earlier ones left; with the pairs (A, B) then (B, C) the
\* value of column A ends under C; and a pair whose target is already a key
\* replaces that key's value, leaving a mapping with a key less.
C22_RenameSequential ==
    Renamed =>
        LET z == Zipped
            t == RemapPairs
            m == call.result.mapping
        IN  /\ m = AfterPairs(z, t, Len(t))
            /\ (/\ Len(t) = 2
                /\ t[1].header_field \in DOMAIN z
                /\ t[1].model_attr = t[2].header_field
                /\ t[1].header_field # t[2].model_attr) =>
                   /\ t[2].model_attr \in DOMAIN m
                   /\ m[t[2].model_attr] = z[t[1].header_field]
                   /\ t[1].header_field \notin DOMAIN m
                   /\ t[1].model_attr \notin DOMAIN m \/ t[1].model_attr = t[2].model_attr
            /\ Len(t) > 0 =>
                   LET before == AfterPairs(z, t, Len(t) - 1)
                       last == t[Len(t)]
                   IN  (/\ last.header_field \in DOMAIN before
                        /\ last.model_attr \in DOMAIN before
                        /\ last.header_field # last.model_attr) =>
                           /\ m[last.model_attr] = before[last.header_field]
                           /\ Cardinality(DOMAIN m) = Cardinality(DOMAIN before) - 1
                           /\ Cardinality(DOMAIN m) < Len(call.row_values)

\* Header [x, y], row of two cells, pairs (x, z) then (z, y): the value of
\* column x is under y, in place of the value of column y, and the mapping
\* has one key for two cells.
C22_Witness ==
    /\ Renamed
    /\ Len(RemapPairs) = 2
    /\ RemapPairs[1].model_attr = RemapPairs[2].header_field
    /\ Len(call.row_values) = 2
    /\ call.header.v = << << "x" >>, << "y" >> >>
    /\ DOMAIN call.result.mapping = {<< "y" >>}
    /\ call.result.mapping[<< "y" >>] = call.row_values[1]
    /\ call.row_values[1] # call.row_values[2]

====
